---- MODULE Spec2Model ----
(***************************************************************************)
(* Putaway-inspection sampling generator (the "shangjia pandian biao"      *)
(* tool): the run_btn handler and the functions it calls,                  *)
(*   detect_diff_location_column, build_excluded_locations,                *)
(*   clean_source_data, create_check_table,                                *)
(*   sample_locations_to_check_table, add_inventory_content_column.        *)
(*                                                                         *)
(* Text is a sequence of characters; a character is written as a TLA+      *)
(* string (" ", "a", "R", ...), a Chinese character by its pinyin.  Cell   *)
(* values are records [t, s, v]: t = "str" with the text s, t = "num" with *)
(* the integer v, t = "nan" (a missing cell), t = "none" (Python None).    *)
(***************************************************************************)
EXTENDS Integers, Sequences, FiniteSets, TLC

\* ------------------------------------------------------------------ bounds
\* Most rows of the uploaded source sheet.
MaxRows == 3
\* Largest sample size k the inputs use (the sidebar allows 1..50).
MaxK == 2
\* Most rows of the source sheet when the cleaner is studied.
MaxCleanRows == 2
\* Most columns of the uploaded discrepancy sheet.
MaxDiffColumns == 2

\* ------------------------------------------------------------ cell values
Str(s) == [t |-> "str", s |-> s, v |-> 0]
Num(n) == [t |-> "num", s |-> <<>>, v |-> n]
NaN == [t |-> "nan", s |-> <<>>, v |-> 0]
None == [t |-> "none", s |-> <<>>, v |-> 0]

\* pandas notna / dropna: NaN and None are both missing.
notna(x) == x.t \notin {"nan", "none"}

\* Characters in code-point order; only the order is used (sorting).
Alphabet ==
    << " ", "-", ".", "/", "0", "1", "2", "3", "4", "5", "6", "7", "8", "9",
       "@", "A", "L", "N", "R", "_", "a", "b", "c", "d", "h", "i", "j", "k",
       "m", "n", "o", "x",
       "cai", "gou", "jin", "huo", "tui" >>

Ord(c) == CHOOSE i \in 1..Len(Alphabet) : Alphabet[i] = c

IsSpace(c) == c = " "

RECURSIVE lstrip(_)
lstrip(s) ==
    IF s # <<>> /\ IsSpace(Head(s)) THEN lstrip(Tail(s)) ELSE s

RECURSIVE rstrip(_)
rstrip(s) ==
    IF s # <<>> /\ IsSpace(s[Len(s)]) THEN rstrip(SubSeq(s, 1, Len(s) - 1)) ELSE s

\* str.strip(): surrounding whitespace removed, inner whitespace kept.
strip(s) == rstrip(lstrip(s))

\* Python's str < str: lexicographic by code point.
RECURSIVE StrLess(_, _)
StrLess(a, b) ==
    IF b = <<>> THEN FALSE
    ELSE IF a = <<>> THEN TRUE
    ELSE IF Head(a) = Head(b) THEN StrLess(Tail(a), Tail(b))
    ELSE Ord(Head(a)) < Ord(Head(b))

\* str.startswith
startswith(s, p) == Len(s) >= Len(p) /\ SubSeq(s, 1, Len(p)) = p

\* Python's `p in s` on strings.
contains(s, p) ==
    \E i \in 0..(Len(s) - Len(p)) : SubSeq(s, i + 1, i + Len(p)) = p

Digits == <<"0", "1", "2", "3", "4", "5", "6", "7", "8", "9">>
IsDigit(c) == \E d \in 1..10 : Digits[d] = c
DigitVal(c) == (CHOOSE d \in 1..10 : Digits[d] = c) - 1

RECURSIVE DigitsOf(_)
DigitsOf(n) ==
    IF n < 10 THEN <<Digits[n + 1]>> ELSE DigitsOf(n \div 10) \o <<Digits[(n % 10) + 1]>>

\* Series.astype(str) on one cell: str(x); NaN becomes the text "nan".
astype_str(x) ==
    CASE x.t = "str" -> x.s
      [] x.t = "num" -> IF x.v < 0 THEN <<"-">> \o DigitsOf(-x.v) ELSE DigitsOf(x.v)
      [] x.t = "nan" -> <<"n", "a", "n">>
      [] OTHER -> <<"N", "o", "n", "e">>

RECURSIVE ParseDigits(_, _)
ParseDigits(s, acc) ==
    IF s = <<>> THEN acc ELSE ParseDigits(Tail(s), 10 * acc + DigitVal(Head(s)))

IsDigitString(s) == s # <<>> /\ \A i \in 1..Len(s) : IsDigit(s[i])

\* pd.to_numeric(errors="coerce") on one cell: a number stays, a text that
\* reads as an integer is parsed, anything else becomes NaN without an error.
to_numeric(x) ==
    CASE x.t = "num" -> x
      [] x.t = "str" ->
            LET s == strip(x.s) IN
            IF IsDigitString(s) THEN Num(ParseDigits(s, 0))
            ELSE IF s # <<>> /\ Head(s) = "-" /\ IsDigitString(Tail(s))
                 THEN Num(0 - ParseDigits(Tail(s), 0))
            ELSE NaN
      [] OTHER -> NaN

\* ----------------------------------------------------------- column names
\* Source sheet (clean_source_data, line 90): zuoye leixing (operation type),
\* chuqu hao (zone id), shangjia liang (putaway quantity), chuwei bianma
\* (location code), shangjia yuan (putaway operator).
COL_OP == <<"zuo", "ye", "lei", "xing">>
COL_ZONE == <<"chu", "qu", "hao">>
COL_QTY == <<"shang", "jia", "liang">>
COL_LOC == <<"chu", "wei", "bian", "ma">>
COL_USER == <<"shang", "jia", "yuan">>

required == <<COL_OP, COL_ZONE, COL_QTY, COL_LOC, COL_USER>>

\* "caigou jinhuo" (purchase receiving), the operation type that is kept.
PURCHASE_RECEIVING == <<"cai", "gou", "jin", "huo">>
\* The zone that is dropped.
ZONE_R == <<"R">>
\* The account create_check_table removes.
BLACKLISTED_USER ==
    <<"x", "i", "a", "o", ".", "h", "a", "n", ".", "1", "@", "j", "d", ".", "c", "o", "m">>

\* A frame is [columns, rows]; a source row is a record
\* [index, op_type, zone, qty, loc, user], index being its row label.
Range(s) == {s[i] : i \in 1..Len(s)}

MapSeq(s, F(_)) == [i \in 1..Len(s) |-> F(s[i])]

\* ------------------------------------------- detect_diff_location_column
\* Discrepancy sheet columns: chuwei lie, chuwei, chuwei bianma, chuwei hao,
\* kuwei, kuwei bianma; the tokens "chuwei" and "kuwei".
COL_CHUWEI_LIE == <<"chu", "wei", "lie">>
CANDIDATES ==
    << <<"chu", "wei">>, <<"chu", "wei", "bian", "ma">>, <<"chu", "wei", "hao">>,
       <<"ku", "wei">>, <<"ku", "wei", "bian", "ma">> >>
TOKEN_CHUWEI == <<"chu", "wei">>
TOKEN_KUWEI == <<"ku", "wei">>

\* The resolution that takes the first column, in column order, that is a
\* candidate name.
detect_by_column_order(df_diff) ==
    LET cols == df_diff.columns
        hits == SelectSeq(cols, LAMBDA c : c \in Range(CANDIDATES))
        possible == SelectSeq(cols, LAMBDA c : contains(c, TOKEN_CHUWEI) \/ contains(c, TOKEN_KUWEI))
    IN  IF COL_CHUWEI_LIE \in Range(cols) THEN [raised |-> FALSE, col |-> COL_CHUWEI_LIE]
        ELSE IF hits # <<>> THEN [raised |-> FALSE, col |-> hits[1]]
        ELSE IF possible # <<>> THEN [raised |-> FALSE, col |-> possible[1]]
        ELSE [raised |-> TRUE, col |-> <<>>]

\* [raised, col]: the resolved column, or raised = TRUE for the ValueError.
detect_diff_location_column(df_diff) ==
    LET cols == df_diff.columns
        hits == SelectSeq(CANDIDATES, LAMBDA cand : cand \in Range(cols))
        possible == SelectSeq(cols, LAMBDA c : contains(c, TOKEN_CHUWEI) \/ contains(c, TOKEN_KUWEI))
    IN  IF COL_CHUWEI_LIE \in Range(cols) THEN [raised |-> FALSE, col |-> COL_CHUWEI_LIE]
        ELSE IF hits # <<>> THEN [raised |-> FALSE, col |-> hits[1]]
        ELSE IF possible # <<>> THEN [raised |-> FALSE, col |-> possible[1]]
        ELSE [raised |-> TRUE, col |-> <<>>]

\* The cells of column c of the discrepancy sheet (the first column so named).
ColumnCells(df_diff, c) ==
    df_diff.data[CHOOSE i \in 1..Len(df_diff.columns) : df_diff.columns[i] = c]

\* build_excluded_locations: dropna, astype(str), strip, "" dropped, as a set.
build_excluded_locations(df_diff, loc_col) ==
    LET cells == SelectSeq(ColumnCells(df_diff, loc_col), notna)
        texts == MapSeq(cells, LAMBDA x : strip(astype_str(x)))
    IN  {s \in Range(texts) : s # <<>>}

\* The check of the required columns with the last one left out.
missing_columns_but_last(df) ==
    SelectSeq(SubSeq(required, 1, Len(required) - 1), LAMBDA c : c \notin df.columns)

\* ----------------------------------------------------- clean_source_data
missing_columns(df) == SelectSeq(required, LAMBDA c : c \notin df.columns)

\* out["zuoye leixing"] == "caigou jinhuo" on one cell
op_type_mask(x) == x.t = "str" /\ x.s = PURCHASE_RECEIVING

\* out["chuqu hao"] != "R" on one cell
zone_mask(x) == ~(x.t = "str" /\ x.s = ZONE_R)

\* The quantity test without notna(): a missing quantity passes.
qty_mask_without_notna(q, qty_limit) == q.t # "num" \/ q.v <= qty_limit

\* out["shangjia liang"].notna() & (out["shangjia liang"] <= qty_limit), after to_numeric
qty_mask(q, qty_limit) == q.t = "num" /\ q.v <= qty_limit

\* The location test also dropping blank location codes, whatever the set.
loc_mask_drops_blank(loc, excluded_locations) ==
    loc.s # <<>> /\ loc.s \notin excluded_locations

\* The location filter that drops nothing.
loc_mask_keeps_all(loc, excluded_locations) == TRUE

\* ~out["chuwei bianma"].isin(excluded_locations), applied only `if excluded_locations:`
loc_mask(loc, excluded_locations) ==
    IF excluded_locations # {} THEN loc.s \notin excluded_locations ELSE TRUE

\* The row labels left as they were in the source sheet.
reset_index_keeps_labels(rows) == rows

\* reset_index(drop=True): row labels become 0..n-1 in the order kept.
reset_index(rows) == [i \in 1..Len(rows) |-> [rows[i] EXCEPT !.index = i - 1]]

\* [raised, missing, out, kept]: raised with the missing columns, or the
\* cleaned frame `out` and `kept`, the row labels of `out` just before
\* reset_index (line 108) replaces them.
clean_source_data(df, excluded_locations, qty_limit) ==
    LET missing == missing_columns(df)
        s1 == SelectSeq(df.rows, LAMBDA r : op_type_mask(r.op_type))
        s2 == SelectSeq(s1, LAMBDA r : zone_mask(r.zone))
        s3 == MapSeq(s2, LAMBDA r : [r EXCEPT !.qty = to_numeric(@)])
        s4 == SelectSeq(s3, LAMBDA r : qty_mask(r.qty, qty_limit))
        s5 == MapSeq(s4, LAMBDA r : [r EXCEPT !.loc = Str(strip(astype_str(@)))])
        s6 == SelectSeq(s5, LAMBDA r : loc_mask(r.loc, excluded_locations))
    IN  IF missing # <<>>
        THEN [raised |-> TRUE, missing |-> missing, out |-> <<>>, kept |-> <<>>]
        ELSE [raised |-> FALSE, missing |-> <<>>,
              out |-> [columns |-> df.columns, rows |-> reset_index(s6)],
              kept |-> MapSeq(s6, LAMBDA r : r.index)]

\* ---------------------------------------------------- create_check_table
\* drop_duplicates: the first occurrence of every value is kept, in order.
drop_duplicates(s) ==
    LET first == {j \in 1..Len(s) : \A h \in 1..(j - 1) : s[h] # s[j]}
    IN  [p \in 1..Cardinality(first) |->
            s[CHOOSE j \in first : Cardinality({h \in first : h < j}) = p - 1]]

\* check["shangjia yuan"] != "xiao.han.1@jd.com" on one cell
user_mask(u) == ~(u.t = "str" /\ u.s = BLACKLISTED_USER)

\* sort_values on a column of distinct texts: ascending by code point, the
\* text at position p being the one with p - 1 smaller texts in the column.
sort_values(s) ==
    [p \in 1..Len(s) |->
        s[CHOOSE i \in 1..Len(s) :
              Cardinality({j \in 1..Len(s) : StrLess(s[j].s, s[i].s)}) = p - 1]]

\* The roster: the one column "shangjia yuan" of the check table, top to bottom.
\* `check` is the frame of lines 115-119, computed once and then sorted.
create_check_table(df_clean) ==
    LET users == MapSeq(df_clean.rows, LAMBDA r : r.user)
    IN  CHOOSE out \in {sort_values(check) :
                            check \in {SelectSeq(filtered, user_mask) :
                                filtered \in {drop_duplicates(nonmissing) :
                                    nonmissing \in {SelectSeq(users, notna)}}}} : TRUE

\* A generator seeded from the operating system, as default_rng() without an
\* argument would be.
default_rng_unseeded(s, os_entropy) == [material |-> <<"entropy", os_entropy>>, calls |-> <<>>]

\* ---------------------------------------- sample_locations_to_check_table
\* np.random.default_rng(seed): the generator's state is fixed by the seed
\* alone; the operating system's entropy, which default_rng() would read when
\* given no seed, is not used.  The state is kept as the seed material and the
\* calls made so far, each call <<population size, sample size>>.
default_rng(s, os_entropy) == [material |-> <<"seed", s>>, calls |-> <<>>]

\* The generator after one rng.choice call.
advance(g, population, n) == [g EXCEPT !.calls = Append(@, <<Len(population), n>>)]

\* A draw of n members with replacement, in any order.
OrderedSamples_with_replacement(population, n) == [1..n -> Range(population)]

\* What rng.choice(population, size=n, replace=False) can return: n distinct
\* members, in any order.
OrderedSamples(population, n) ==
    {s \in [1..n -> Range(population)] : \A a, b \in 1..n : a # b => s[a] # s[b]}

\* pool["_row_id"] = pool.index
with_row_id(rows) == [j \in 1..Len(rows) |->
    [index |-> rows[j].index, op_type |-> rows[j].op_type, zone |-> rows[j].zone,
     qty |-> rows[j].qty, loc |-> rows[j].loc, user |-> rows[j].user,
     row_id |-> rows[j].index]]

\* result: check_table with k empty (None) slot columns.
empty_result(check_table, kk) ==
    [g \in 1..Len(check_table) |-> [user |-> check_table[g], slots |-> [j \in 1..kk |-> None]]]

\* pool_loc_norm: astype(str).str.strip() of one location cell
loc_norm(loc) == strip(astype_str(loc))

\* The mask without the comparison of operators.
eligible_mask_any_user(r, user, excluded_locations) ==
    excluded_locations # {} => loc_norm(r.loc) \notin excluded_locations

\* eligible_mask on one pool row (lines 155-157)
eligible_mask(r, user, excluded_locations) ==
    /\ r.user # user
    /\ (excluded_locations # {} => loc_norm(r.loc) \notin excluded_locations)

eligible_rows(pl, user, excluded_locations) ==
    SelectSeq(pl, LAMBDA r : eligible_mask(r, user, excluded_locations))

\* The sample size without the cap at the number of eligible rows.
sample_size_uncapped(kk, len) == kk

\* n = min(k, len(eligible))
sample_size(kk, len) == IF kk < len THEN kk ELSE len

\* eligible.set_index("_row_id").loc[sampled_ids]["chuwei bianma"], normalised
sampled_locs(eligible, sampled_ids) ==
    [j \in 1..Len(sampled_ids) |->
        loc_norm((CHOOSE r \in Range(eligible) : r.row_id = sampled_ids[j]).loc)]

\* The drawn codes written to the last slots instead of the first.
write_slots_from_last(slots, locs) ==
    [j \in 1..Len(slots) |->
        IF j > Len(slots) - Len(locs) THEN Str(locs[j - (Len(slots) - Len(locs))]) ELSE slots[j]]

\* result.at[i, col_names[j]] = val, for j, val in enumerate(locs)
write_slots(slots, locs) ==
    [j \in 1..Len(slots) |-> IF j <= Len(locs) THEN Str(locs[j]) ELSE slots[j]]

\* The shortage test off by one.
shortage_after_draw_le(sh, user, n, kk) ==
    IF n <= kk THEN Append(sh, <<user, n>>) ELSE sh

\* if n < k: shortage.append((user, n))
shortage_after_draw(sh, user, n, kk) ==
    IF n < kk THEN Append(sh, <<user, n>>) ELSE sh

\* The pool left as it was after a draw.
remove_sampled_nothing(pl, sampled_ids) == pl

\* Only the first drawn row removed from the pool.
remove_sampled_first_only(pl, sampled_ids) ==
    SelectSeq(pl, LAMBDA r : sampled_ids = <<>> \/ r.row_id # sampled_ids[1])

\* pool.loc[~pool["_row_id"].isin(sampled_ids)]
remove_sampled(pl, sampled_ids) ==
    SelectSeq(pl, LAMBDA r : r.row_id \notin Range(sampled_ids))

\* sort_values("shiji chouyang tiaoshu") of the shortage frame: ascending by the
\* actual count, equal counts left in the order appended.
RECURSIVE sort_shortage(_)
sort_shortage(sh) ==
    IF sh = <<>> THEN <<>>
    ELSE LET m == CHOOSE a \in 1..Len(sh) :
                    /\ \A b \in 1..Len(sh) : sh[a][2] <= sh[b][2]
                    /\ \A b \in 1..(a - 1) : sh[b][2] # sh[a][2]
         IN  <<sh[m]>> \o sort_shortage(SubSeq(sh, 1, m - 1) \o SubSeq(sh, m + 1, Len(sh)))

\* ------------------------------------------ add_inventory_content_column
\* The slot test that lets every slot through.
content_keep_all(x) == TRUE

\* pd.notna(x) and str(x).strip() != ""
content_keep(x) == notna(x) /\ strip(astype_str(x)) # <<>>

RECURSIVE join(_, _)
join(sep, parts) ==
    IF parts = <<>> THEN <<>>
    ELSE IF Len(parts) = 1 THEN parts[1]
    ELSE parts[1] \o sep \o join(sep, Tail(parts))

content_of(slots) ==
    join(<<",">>, MapSeq(SelectSeq(slots, content_keep), astype_str))

\* The finalizer that leaves out the groups with nothing to list.
add_inventory_content_column_nonempty(res, kk) ==
    SelectSeq([g \in 1..Len(res) |->
                  [user |-> res[g].user, slots |-> res[g].slots,
                   content |-> content_of(res[g].slots)]],
              LAMBDA row : row.content # <<>>)

add_inventory_content_column(res, kk) ==
    [g \in 1..Len(res) |->
        [user |-> res[g].user, slots |-> res[g].slots, content |-> content_of(res[g].slots)]]

\* ------------------------------------------------------------------ state
VARIABLES
    df_source,           \* the uploaded source sheet, column labels stripped
    diff_upload,         \* the optional discrepancy sheet: [uploaded, columns, data]
    k, seed, qty_limit,  \* the sidebar's parameters
    run_no,              \* which click of the run button this is (1 or 2)
    pc,                  \* the handler's position
    error,               \* the exception the handler caught, if any
    locals,              \* the handler's variables assigned so far
    diff_loc_col,        \* the location column found in the discrepancy sheet
    excluded_locations, df_clean, check_table,
    rng, pool, result, shortage, i,
    shortage_df, final_table,
    kept,                \* row labels of the cleaned rows before reset_index
    sampled,             \* sampled_ids of each roster group processed so far
    stream,              \* the generator's outputs seen so far, by state and population
    prev                 \* what the previous click produced

inputs == <<df_source, diff_upload, k, qty_limit>>
diff == <<excluded_locations, diff_loc_col>>
sampler == <<rng, pool, result, shortage, i, sampled, stream>>
outputs == <<shortage_df, final_table>>
vars == <<df_source, diff_upload, k, seed, qty_limit, run_no, pc, error, locals,
          diff_loc_col, excluded_locations, df_clean, check_table, rng, pool, result, shortage, i,
          shortage_df, final_table, kept, sampled, stream, prev>>

\* ----------------------------------------------------------------- inputs
DEFAULT_QTY_LIMIT == 50
DEFAULT_SEED == 42
MIN_K == 1

Row(op, zone, qty, loc, user) ==
    [index |-> 0, op_type |-> op, zone |-> zone, qty |-> qty, loc |-> loc, user |-> user]

U_A == Str(<<"a">>)
U_B == Str(<<"b">>)
U_A_WS == Str(<<"a", " ">>)
U_JDHK == Str(<<"j", "d", "h", "k", "_", "x">>)
U_BLACK == Str(BLACKLISTED_USER)
L1 == Str(<<"L", "1">>)
L2 == Str(<<"L", "2">>)
L3 == Str(<<"L", "3">>)
OP_OK == Str(PURCHASE_RECEIVING)
ZONE_A == Str(<<"A">>)
Good(loc, user) == Row(OP_OK, ZONE_A, Num(5), loc, user)

\* Rows for the sampler: clean rows of several operators, some sharing a
\* location code, some of operators that never enter the roster, one with a
\* blank location code.
SampleRows ==
    { Good(L1, U_A), Good(L2, U_A), Good(L1, U_B), Good(L2, U_B),
      Good(L3, NaN), Good(L2, U_JDHK), Good(L1, U_BLACK), Good(Str(<<" ", " ">>), U_B) }

\* Rows for the cleaner: one field at a time off the accepted form.
CleanRows ==
    { Good(L1, U_A),
      Good(Str(<<" ", "L", "2", " ">>), U_B),
      Good(L1, U_A_WS),
      Good(Str(<<" ">>), U_B),
      Row(Str(<<" ">> \o PURCHASE_RECEIVING), ZONE_A, Num(5), L1, U_A),
      Row(Str(<<"tui", "huo">>), ZONE_A, Num(5), L1, U_A),
      Row(OP_OK, Str(ZONE_R), Num(5), L1, U_A),
      Row(OP_OK, Str(ZONE_R \o <<" ">>), Num(5), L1, U_A),
      Row(OP_OK, ZONE_A, Str(<<"N", "/", "A">>), L1, U_A),
      Row(OP_OK, ZONE_A, Str(<<"7">>), L1, U_A),
      Row(OP_OK, ZONE_A, NaN, L1, U_A),
      Row(OP_OK, ZONE_A, Num(50), L1, U_B),
      Row(OP_OK, ZONE_A, Num(51), L1, U_A),
      Row(OP_OK, ZONE_A, Num(0 - 1), L2, U_A) }

AllColumns == Range(required)
ColumnSets == {AllColumns, AllColumns \ {COL_QTY}, AllColumns \ {COL_OP, COL_USER}}

NoUpload == [uploaded |-> FALSE, columns |-> <<>>, data |-> <<>>]
DiffSheet(columns, data) == [uploaded |-> TRUE, columns |-> columns, data |-> data]
\* A discrepancy sheet naming L1 (with surrounding blanks, a blank cell and a
\* missing cell), and one with no location column.
DiffL1 == DiffSheet(<<COL_CHUWEI_LIE>>, << <<Str(<<" ", "L", "1">>), Str(<<" ">>), NaN>> >>)
DiffNoColumn == DiffSheet(<< <<"S", "K", "U">> >>, << <<L1>> >>)

\* RangeIndex: row labels 0..n-1 top to bottom.
SheetOf(rows) == [j \in 1..Len(rows) |-> [rows[j] EXCEPT !.index = j - 1]]

Sheets(catalog, n) == UNION {[1..m -> catalog] : m \in 0..n}

HandlerStart ==
    /\ pc = "clicked"
    /\ error = [kind |-> "none", missing |-> <<>>]
    /\ locals = {}
    /\ diff_loc_col = <<>>
    /\ excluded_locations = {}
    /\ df_clean = [columns |-> {}, rows |-> <<>>]
    /\ check_table = <<>>
    /\ rng = [material |-> <<>>, calls |-> <<>>]
    /\ pool = <<>>
    /\ result = <<>>
    /\ shortage = <<>>
    /\ i = 0
    /\ shortage_df = <<>>
    /\ final_table = <<>>
    /\ kept = <<>>
    /\ sampled = <<>>

\* The page when the run button is clicked: a source sheet of at most n rows
\* of the catalog, one of the discrepancy uploads `diffs`, k among `ks`.  A
\* run that stops before the cleaner filters is given at most one row.
InitOf(catalog, n, limits, diffs, ks) ==
    /\ \E rows \in Sheets(catalog, n), cols \in ColumnSets, d \in diffs :
          /\ (cols # AllColumns \/ (d.uploaded /\ detect_diff_location_column(d).raised))
                => Len(rows) <= 1
          /\ df_source = [columns |-> cols, rows |-> SheetOf(rows)]
          /\ diff_upload = d
    /\ k \in ks
    /\ seed = DEFAULT_SEED
    /\ qty_limit \in limits
    /\ run_no = 1
    /\ stream = {}
    /\ prev = [pc |-> "none", seed |-> 0, shortage_df |-> <<>>, final_table |-> <<>>]
    /\ HandlerStart

InitWith(catalog, n, limits) ==
    InitOf(catalog, n, limits, {NoUpload, DiffL1, DiffNoColumn}, MIN_K..MaxK)

Init == InitWith(SampleRows, MaxRows, {DEFAULT_QTY_LIMIT})

\* --------------------------------------------------- the run_btn handler
\* except Exception as e: st.error(...): the handler stops, nothing is shown.
Fail(kind, missing) ==
    /\ pc' = "failed"
    /\ error' = [kind |-> kind, missing |-> missing]

\* Lines 230-238: the discrepancy sheet is optional.
ResolveDiff ==
    /\ pc = "clicked"
    /\ IF ~diff_upload.uploaded
       THEN /\ excluded_locations' = {}
            /\ diff_loc_col' = diff_loc_col
            /\ locals' = locals \cup {"excluded_locations"}
            /\ pc' = "resolved"
            /\ error' = error
       ELSE LET found == detect_diff_location_column(diff_upload) IN
            IF found.raised
            THEN /\ Fail("diff_column", <<>>)
                 /\ locals' = locals \cup {"excluded_locations", "df_diff"}
                 /\ excluded_locations' = {}
                 /\ diff_loc_col' = diff_loc_col
            ELSE /\ diff_loc_col' = found.col
                 /\ excluded_locations' = build_excluded_locations(diff_upload, found.col)
                 /\ locals' = locals \cup {"excluded_locations", "df_diff", "diff_loc_col"}
                 /\ pc' = "resolved"
                 /\ error' = error
    /\ UNCHANGED <<inputs, seed, run_no, df_clean, check_table, sampler, outputs, kept, prev>>

\* Line 240: df_clean = clean_source_data(df_source, excluded_locations, qty_limit)
CleanSourceData ==
    /\ pc = "resolved"
    /\ LET c == clean_source_data(df_source, excluded_locations, qty_limit) IN
       IF c.raised
       THEN /\ Fail("missing_columns", c.missing)
            /\ UNCHANGED <<df_clean, kept, locals>>
       ELSE /\ df_clean' = c.out
            /\ kept' = c.kept
            /\ locals' = locals \cup {"df_clean"}
            /\ pc' = "cleaned"
            /\ error' = error
    /\ UNCHANGED <<inputs, seed, run_no, diff, check_table, sampler, outputs, prev>>

\* Line 241: check_table = create_check_table(df_clean)
CreateCheckTable ==
    /\ pc = "cleaned"
    /\ check_table' = create_check_table(df_clean)
    /\ locals' = locals \cup {"check_table"}
    /\ pc' = "rostered"
    /\ UNCHANGED <<inputs, seed, run_no, error, diff, df_clean, sampler,
                   outputs, kept, prev>>

\* Lines 139-152: the sampler's set-up.
SampleBegin ==
    /\ pc = "rostered"
    /\ rng' = default_rng(seed, run_no)
    /\ pool' = with_row_id(df_clean.rows)
    /\ result' = empty_result(check_table, k)
    /\ shortage' = <<>>
    /\ i' = 0
    /\ sampled' = <<>>
    /\ locals' = locals \cup {"rng", "pool", "result", "shortage"}
    /\ pc' = "sampling"
    /\ UNCHANGED <<inputs, seed, run_no, error, diff, df_clean, check_table,
                   stream, outputs, kept, prev>>

\* Lines 154-181: one pass of the loop over the roster, for result row i.
SampleGroup ==
    /\ pc = "sampling"
    /\ i < Len(result)
    /\ LET user == result[i + 1].user
           eligible == eligible_rows(pool, user, excluded_locations)
           ids == MapSeq(eligible, LAMBDA r : r.row_id)
           n == sample_size(k, Len(eligible))
       IN  IF eligible = <<>>
           THEN /\ shortage' = Append(shortage, <<user, 0>>)
                /\ sampled' = Append(sampled, <<>>)
                /\ i' = i + 1
                /\ UNCHANGED <<rng, pool, result, stream, pc, error>>
           ELSE IF n > Len(ids)
           THEN \* rng.choice raises ValueError: sample larger than population
                /\ Fail("choice", <<>>)
                /\ UNCHANGED <<rng, pool, result, shortage, i, sampled, stream>>
           ELSE \E sampled_ids \in OrderedSamples(ids, n) :
                /\ \A e \in stream : (e.rng = rng /\ e.population = ids) => e.out = sampled_ids
                /\ stream' = stream \cup {[rng |-> rng, population |-> ids, out |-> sampled_ids]}
                /\ rng' = advance(rng, ids, n)
                /\ result' = [result EXCEPT ![i + 1].slots =
                                 write_slots(@, sampled_locs(eligible, sampled_ids))]
                /\ shortage' = shortage_after_draw(shortage, user, n, k)
                /\ pool' = remove_sampled(pool, sampled_ids)
                /\ sampled' = Append(sampled, sampled_ids)
                /\ i' = i + 1
                /\ UNCHANGED <<pc, error>>
    /\ UNCHANGED <<inputs, seed, run_no, locals, diff, df_clean, check_table,
                   outputs, kept, prev>>

\* Lines 183-184: the loop is over; the shortage frame is built and sorted.
SampleEnd ==
    /\ pc = "sampling"
    /\ i = Len(result)
    /\ shortage_df' = sort_shortage(shortage)
    /\ locals' = locals \cup {"sampled_table", "shortage_df"}
    /\ pc' = "sampled"
    /\ UNCHANGED <<inputs, seed, run_no, error, diff, df_clean, check_table,
                   sampler, final_table, kept, prev>>

\* Line 246: final_table = add_inventory_content_column(sampled_table, k)
AddInventoryContent ==
    /\ pc = "sampled"
    /\ final_table' = add_inventory_content_column(result, k)
    /\ locals' = locals \cup {"final_table"}
    /\ pc' = "done"
    /\ UNCHANGED <<inputs, seed, run_no, error, diff, df_clean, check_table,
                   sampler, shortage_df, kept, prev>>

\* A second click of the run button on the same uploads and the same k, with
\* the seed field either left alone or changed: the script runs again from
\* the top.
Seeds == {DEFAULT_SEED, DEFAULT_SEED + 1}

Rerun ==
    /\ pc \in {"done", "failed"}
    /\ run_no = 1
    /\ run_no' = 2
    /\ seed' \in Seeds
    /\ prev' = [pc |-> pc, seed |-> seed, shortage_df |-> shortage_df,
                final_table |-> final_table]
    /\ pc' = "clicked"
    /\ error' = [kind |-> "none", missing |-> <<>>]
    /\ locals' = {}
    /\ diff_loc_col' = <<>>
    /\ excluded_locations' = {}
    /\ df_clean' = [columns |-> {}, rows |-> <<>>]
    /\ check_table' = <<>>
    /\ rng' = [material |-> <<>>, calls |-> <<>>]
    /\ pool' = <<>>
    /\ result' = <<>>
    /\ shortage' = <<>>
    /\ i' = 0
    /\ shortage_df' = <<>>
    /\ final_table' = <<>>
    /\ kept' = <<>>
    /\ sampled' = <<>>
    /\ UNCHANGED <<inputs, stream>>

Next ==
    \/ ResolveDiff
    \/ CleanSourceData
    \/ CreateCheckTable
    \/ SampleBegin
    \/ SampleGroup
    \/ SampleEnd
    \/ AddInventoryContent

Spec == Init /\ [][Next]_vars

\* The cleaner on rows that leave the accepted form one field at a time.
InitClean == InitWith(CleanRows, MaxCleanRows, {5, DEFAULT_QTY_LIMIT})

SpecClean == InitClean /\ [][Next]_vars

\* Two clicks in a row, on sheets of rows of two operators and of none.
TwoRunRows == {Good(L1, U_A), Good(L2, U_A), Good(L1, U_B), Good(L2, U_B), Good(L3, NaN)}

InitTwoRuns == InitWith(TwoRunRows, MaxRows, {DEFAULT_QTY_LIMIT})

NextTwoRuns == Next \/ Rerun

SpecTwoRuns == InitTwoRuns /\ [][NextTwoRuns]_vars

\* The handler runs to its end without waiting on anything: a step that can
\* be taken is taken.
LiveRows == {Good(L1, U_A), Good(L1, U_B), Good(L2, U_JDHK), Good(L3, NaN)}

InitLive == InitWith(LiveRows, MaxRows, {DEFAULT_QTY_LIMIT})

SpecLive == InitLive /\ [][Next]_vars /\ WF_vars(Next)

\* Discrepancy sheets of every header of at most MaxDiffColumns distinct
\* names: the preferred name, candidate names, names that only contain a
\* token, and a name with no token.  Column j holds the one code Lj.
DiffColumnNames ==
    { COL_CHUWEI_LIE, <<"chu", "wei">>, <<"chu", "wei", "bian", "ma">>, <<"ku", "wei">>,
      <<"yuan", "chu", "wei">>, <<"xin", "ku", "wei">>, <<"S", "K", "U">> }

DiffHeaders ==
    UNION {{h \in [1..n -> DiffColumnNames] : \A a, b \in 1..n : a # b => h[a] # h[b]}
              : n \in 1..MaxDiffColumns}

DiffSheets ==
    {NoUpload} \cup
    {DiffSheet(h, [j \in 1..Len(h) |-> <<Str(<<"L">> \o DigitsOf(j))>>]) : h \in DiffHeaders}

DiffRows == {Good(L1, U_A), Good(L2, U_B)}

InitDiff == InitOf(DiffRows, MaxCleanRows, {DEFAULT_QTY_LIMIT}, DiffSheets, MIN_K..MaxK)

SpecDiff == InitDiff /\ [][Next]_vars

\* Sheets whose rows differ in what the cleaner tests: quantities at zero,
\* below zero and above the ceiling, zone "R", another operation type.
RetainRows ==
    { Good(L1, U_A),
      Row(OP_OK, ZONE_A, Num(0), L2, U_B),
      Row(OP_OK, ZONE_A, Num(0 - 1), L3, U_A),
      Row(OP_OK, ZONE_A, Num(51), L2, U_A),
      Row(OP_OK, Str(ZONE_R), Num(5), L2, U_B),
      Row(Str(<<"tui", "huo">>), ZONE_A, Num(5), L3, U_B) }

InitRetain == InitWith(RetainRows, MaxRows, {DEFAULT_QTY_LIMIT})

SpecRetain == InitRetain /\ [][Next]_vars

\* Runs that ask for more rows per operator than the sheet can give: k = 5 is
\* within the number_input's range 1..50.
InitShortfall ==
    InitOf(SampleRows, MaxRows, {DEFAULT_QTY_LIMIT}, {NoUpload, DiffL1, DiffNoColumn}, {MIN_K, 5})

SpecShortfall == InitShortfall /\ [][Next]_vars

\* ================================================================ claims
Filled(slots) == {j \in 1..Len(slots) : slots[j] # None}
SlotValues(slots) == {slots[j] : j \in Filled(slots)}
CleanRowOf(row_id) == df_clean.rows[row_id + 1]

\* C1: two runs on the same uploads, the same k and the same seed end the same
\* way, with the same slots and summary field for every group and the same
\* shortage table.
C1_Determinism ==
    (run_no = 2 /\ pc \in {"done", "failed"} /\ seed = prev.seed) =>
        /\ pc = prev.pc
        /\ final_table = prev.final_table
        /\ shortage_df = prev.shortage_df

\* A second run with the same seed has finished, after draws that had more
\* than one possible outcome.
C1_Witness ==
    /\ run_no = 2 /\ pc = "done" /\ seed = prev.seed
    /\ Len(df_clean.rows) = 3
    /\ \E g \in 1..Len(final_table) : Filled(final_table[g].slots) # {}
    /\ Len(shortage_df) > 0

\* C2 as stated: no location code value is in the slots of two groups.
C2_NoCodeInTwoGroups ==
    \A g1, g2 \in 1..Len(result) :
        g1 # g2 => SlotValues(result[g1].slots) \cap SlotValues(result[g2].slots) = {}

UniqueLocs ==
    \A a, b \in 1..Len(df_clean.rows) :
        a # b => df_clean.rows[a].loc # df_clean.rows[b].loc

\* C2 amended: no row of the cleaned pool is drawn for two groups, each slot
\* holds the location code of the row drawn for it, and so no location code is
\* in the slots of two groups when no two rows of the cleaned pool carry the
\* same location code.
C2_NoRowInTwoGroups ==
    /\ \A g1, g2 \in 1..Len(sampled) :
          g1 # g2 => Range(sampled[g1]) \cap Range(sampled[g2]) = {}
    /\ \A g \in 1..Len(sampled) :
          /\ Filled(result[g].slots) = 1..Len(sampled[g])
          /\ \A j \in 1..Len(sampled[g]) :
                result[g].slots[j] = CleanRowOf(sampled[g][j]).loc
    /\ UniqueLocs => C2_NoCodeInTwoGroups

\* Two groups have both drawn, from a pool of distinct location codes.
C2_Witness ==
    /\ pc = "done" /\ UniqueLocs
    /\ \E g1, g2 \in 1..Len(result) :
          g1 # g2 /\ Filled(result[g1].slots) # {} /\ Filled(result[g2].slots) # {}

\* C3 as stated: no location code in a group's slots is the location code of
\* a row of the cleaned pool put away by that group.
C3_NoCodeOfOwnRows ==
    \A g \in 1..Len(result) : \A v \in SlotValues(result[g].slots) :
        \A r \in Range(df_clean.rows) : r.loc = v => r.user # result[g].user

\* C3 amended: every row drawn for a group was put away by another operator
\* (or by none), and the group's slots hold the location codes of those rows.
C3_NoOwnRowDrawn ==
    \A g \in 1..Len(sampled) : \A j \in 1..Len(sampled[g]) :
        /\ CleanRowOf(sampled[g][j]).user # result[g].user
        /\ result[g].slots[j] = CleanRowOf(sampled[g][j]).loc

\* A group has drawn while rows of its own were in the pool.
C3_Witness ==
    /\ pc = "done"
    /\ \E g \in 1..Len(result) :
          /\ Filled(result[g].slots) # {}
          /\ \E r \in Range(df_clean.rows) :
                r.user = result[g].user /\ r.loc \notin SlotValues(result[g].slots)

ShortageRowsOf(user) == {e \in 1..Len(shortage_df) : shortage_df[e][1] = user}

\* C4: once the sampler has returned, every group has at most k filled slots,
\* has a shortage entry exactly when it has fewer than k, that entry carries
\* its number of filled slots, and no group has two entries.
C4_ShortageIffShort ==
    pc \in {"sampled", "done"} =>
        \A g \in 1..Len(result) :
            LET n == Cardinality(Filled(result[g].slots))
                rows == ShortageRowsOf(result[g].user)
            IN  /\ n <= k
                /\ Cardinality(rows) <= 1
                /\ (rows # {}) <=> (n < k)
                /\ \A e \in rows : shortage_df[e][2] = n

\* The sampler has returned with a full group, a partly filled group and a
\* group with nothing.
C4_Witness ==
    /\ pc = "done"
    /\ \E g \in 1..Len(result) : Cardinality(Filled(result[g].slots)) = k
    /\ \E e \in 1..Len(shortage_df) : shortage_df[e][2] = 0
    /\ \E e \in 1..Len(shortage_df) : shortage_df[e][2] > 0

\* The prefix the roster is said to exclude ("jdhk_").
BLACKLISTED_PREFIX == <<"j", "d", "h", "k", "_">>

\* C5: the roster holds neither the blacklisted account nor any operator id
\* that starts with the blacklisted prefix.
C5_RosterExcludesBlacklist ==
    "check_table" \in locals =>
        \A g \in 1..Len(check_table) :
            /\ check_table[g].s # BLACKLISTED_USER
            /\ ~startswith(astype_str(check_table[g]), BLACKLISTED_PREFIX)

RawRow(index) == df_source.rows[index + 1]

\* A quantity cell that does not read as a number: missing, or a text with a
\* character that is neither a digit, a sign nor a blank.
UnparsableQty(q) ==
    \/ q.t \in {"nan", "none"}
    \/ q.t = "str" /\ \E j \in 1..Len(q.s) : ~IsDigit(q.s[j]) /\ q.s[j] \notin {" ", "-"}

\* C6: the cleaned pool has no row of another operation type than purchase
\* receiving, none of zone "R", none whose quantity is not a number or is above
\* the ceiling; such raw rows are dropped, and a quantity that does not parse
\* raises nothing.
C6_CleanedPoolPredicates ==
    /\ "df_clean" \in locals =>
          /\ \A r \in Range(df_clean.rows) :
                /\ r.op_type = Str(PURCHASE_RECEIVING)
                /\ r.zone # Str(ZONE_R)
                /\ r.qty.t = "num" /\ r.qty.v <= qty_limit
          /\ Len(kept) = Len(df_clean.rows)
          /\ \A j \in 1..Len(kept) :
                /\ RawRow(kept[j]).op_type = df_clean.rows[j].op_type
                /\ RawRow(kept[j]).zone = df_clean.rows[j].zone
                /\ ~UnparsableQty(RawRow(kept[j]).qty)
                /\ RawRow(kept[j]).qty.t = "num" => RawRow(kept[j]).qty = df_clean.rows[j].qty
    /\ (pc = "failed" /\ df_source.columns = AllColumns) => error.kind = "diff_column"

\* The cleaner has returned a row, having dropped one whose quantity is the
\* text "N/A".
C6_Witness ==
    /\ "df_clean" \in locals
    /\ Len(df_clean.rows) = 1
    /\ \E r \in Range(df_source.rows) : r.qty = Str(<<"N", "/", "A">>)

\* The text of a cell with surrounding whitespace removed.
Trimmed(x) == strip(astype_str(x))

\* C7: the inclusion predicates are evaluated on trimmed fields: a row is kept
\* when its trimmed operation type is purchase receiving and the other
\* predicates hold, is dropped when its trimmed zone is "R", and no two roster
\* entries are equal after trimming.
C7_TrimmedBeforePredicates ==
    "check_table" \in locals =>
        /\ \A r \in Range(df_source.rows) :
              /\ ( /\ Trimmed(r.op_type) = PURCHASE_RECEIVING
                   /\ Trimmed(r.zone) # ZONE_R
                   /\ qty_mask(to_numeric(r.qty), qty_limit)
                   /\ Trimmed(r.loc) \notin excluded_locations )
                 => r.index \in Range(kept)
              /\ Trimmed(r.zone) = ZONE_R => r.index \notin Range(kept)
        /\ \A g1, g2 \in 1..Len(check_table) :
              g1 # g2 => Trimmed(check_table[g1]) # Trimmed(check_table[g2])

\* The rows the operation-type, zone and quantity predicates select.
SelectedByFixedRules ==
    SelectSeq(df_source.rows, LAMBDA r :
        /\ r.op_type = Str(PURCHASE_RECEIVING)
        /\ r.zone # Str(ZONE_R)
        /\ ~UnparsableQty(r.qty)
        /\ to_numeric(r.qty).v <= qty_limit)

\* C8: with no discrepancy sheet the exclusion set is empty, the cleaned pool
\* is exactly the rows the operation-type, zone and quantity predicates select,
\* and the eligible rows of the group being processed are exactly the rows of
\* the working pool of other operators.
C8_NoDiffNoLocationFilter ==
    ~diff_upload.uploaded =>
        /\ excluded_locations = {}
        /\ "df_clean" \in locals => kept = MapSeq(SelectedByFixedRules, LAMBDA r : r.index)
        /\ (pc = "sampling" /\ i < Len(result)) =>
              eligible_rows(pool, result[i + 1].user, excluded_locations)
                = SelectSeq(pool, LAMBDA r : r.user # result[i + 1].user)

\* With no discrepancy sheet a group is being processed, and the cleaner kept
\* a row with a blank location code and dropped another row.
C8_Witness ==
    /\ ~diff_upload.uploaded
    /\ pc = "sampling" /\ i < Len(result)
    /\ \E r \in Range(pool) : r.loc = Str(<<>>)
    /\ Len(kept) < Len(df_source.rows)

HandlerLocals ==
    {"df_clean", "check_table", "rng", "pool", "result", "shortage",
     "sampled_table", "shortage_df", "final_table"}

\* C9: with a required column absent the cleaner raises an error that lists
\* exactly the absent columns, and the run has no cleaned pool, no roster, no
\* sampling state and no output table.
C9_MissingColumnsFatal ==
    /\ (pc = "failed" /\ error.kind = "missing_columns") =>
          /\ Range(error.missing) = AllColumns \ df_source.columns
          /\ Len(error.missing) = Cardinality(Range(error.missing))
          /\ locals \cap HandlerLocals = {}
          /\ df_clean.rows = <<>> /\ kept = <<>> /\ check_table = <<>>
          /\ pool = <<>> /\ result = <<>> /\ final_table = <<>>
    /\ df_source.columns # AllColumns =>
          /\ pc \in {"clicked", "resolved", "failed"}
          /\ pc = "failed" => error.kind \in {"missing_columns", "diff_column"}
          /\ locals \cap HandlerLocals = {}

\* The cleaner has raised on a sheet that lacks two required columns and
\* holds a row.
C9_Witness ==
    /\ pc = "failed" /\ error.kind = "missing_columns"
    /\ Len(error.missing) = 2
    /\ Len(df_source.rows) = 1

CurrentUser == result[i + 1].user
NoEligible == pc = "sampling" /\ i < Len(result)
              /\ ~\E r \in Range(pool) : eligible_mask(r, CurrentUser, excluded_locations)

\* C10: the sampler never raises; when the group being processed has no
\* eligible row, the step appends the shortage entry (group, 0), leaves the
\* group's k slots empty and the working pool as it was, and moves on to the
\* next roster entry.
C10_EmptyEligibleIsShortage ==
    /\ [](pc = "failed" => error.kind \in {"missing_columns", "diff_column"})
    /\ [][NoEligible =>
            /\ pc' = "sampling"
            /\ i' = i + 1
            /\ shortage' = Append(shortage, <<CurrentUser, 0>>)
            /\ pool' = pool
            /\ result' = result
            /\ result[i + 1].slots = [j \in 1..k |-> None]]_vars

\* A group with no eligible row has been passed over while rows were in the
\* pool, and the sampler went on to its end.
C10_Witness ==
    /\ pc = "done"
    /\ pool # <<>>
    /\ \E e \in 1..Len(shortage_df) : shortage_df[e][2] = 0
    /\ \E g \in 1..Len(result) : Filled(result[g].slots) # {}

\* A slot that holds a location code: a text of at least one character.
HoldsCode(x) == x.t = "str" /\ x.s # <<>>

\* The texts of `parts` with a comma between each two neighbours.
RECURSIVE CommaJoined(_)
CommaJoined(parts) ==
    IF parts = <<>> THEN <<>>
    ELSE IF Len(parts) = 1 THEN parts[1]
    ELSE CommaJoined(SubSeq(parts, 1, Len(parts) - 1)) \o <<",">> \o parts[Len(parts)]

\* C11: the summary field of every group is the group's slot values that hold
\* a code, in slot order, with a comma between them and nothing for an empty
\* slot; the slots are the codes of the rows drawn for the group in the order
\* drawn; a group with no code in its slots has the empty text.
C11_SummaryIsJoinedSlots ==
    pc = "done" =>
        /\ Len(final_table) = Len(result)
        /\ \A g \in 1..Len(result) :
              LET slots == result[g].slots
                  codes == SelectSeq(slots, HoldsCode)
              IN  /\ final_table[g].user = result[g].user
                  /\ final_table[g].slots = slots
                  /\ final_table[g].content = CommaJoined([j \in 1..Len(codes) |-> codes[j].s])
                  /\ codes = <<>> => final_table[g].content = <<>>
                  /\ \A j \in 1..k :
                        slots[j] = IF j <= Len(sampled[g])
                                   THEN Str(loc_norm(CleanRowOf(sampled[g][j]).loc))
                                   ELSE None

\* The finalizer has joined two codes drawn in descending order for one
\* group, and has given the empty text to a group with no drawn row.
C11_Witness ==
    /\ pc = "done"
    /\ \E g \in 1..Len(final_table) :
          /\ final_table[g].slots = <<L2, L1>>
          /\ final_table[g].content = <<"L", "2", ",", "L", "1">>
    /\ \E g \in 1..Len(final_table) :
          /\ Filled(final_table[g].slots) = {}
          /\ final_table[g].content = <<>>

\* C12: within one group's slots no location code occurs twice, whatever the
\* cleaned pool.
C12_NoCodeTwiceInGroup ==
    \A g \in 1..Len(result) :
        \A a, b \in Filled(result[g].slots) :
            a # b => result[g].slots[a] # result[g].slots[b]

UniqueCodes ==
    \A a, b \in 1..Len(df_clean.rows) :
        a # b => loc_norm(df_clean.rows[a].loc) # loc_norm(df_clean.rows[b].loc)

\* C12 amended: no row of the cleaned pool is drawn twice for one group; two
\* slots of a group hold the same code only when two different rows drawn for
\* it carry that code, so a group's slots hold no code twice when no two rows
\* of the cleaned pool carry the same code.
C12_NoRowTwiceInGroup ==
    \A g \in 1..Len(sampled) :
        /\ \A a, b \in 1..Len(sampled[g]) : a # b => sampled[g][a] # sampled[g][b]
        /\ Filled(result[g].slots) = 1..Len(sampled[g])
        /\ \A a, b \in Filled(result[g].slots) :
              (a # b /\ result[g].slots[a] = result[g].slots[b]) =>
                  /\ CleanRowOf(sampled[g][a]) # CleanRowOf(sampled[g][b])
                  /\ loc_norm(CleanRowOf(sampled[g][a]).loc) = loc_norm(CleanRowOf(sampled[g][b]).loc)
                  /\ ~UniqueCodes

\* A group has drawn two different rows that carry the same code, and a run
\* on a pool without a repeated code has filled two slots of a group.
C12_Witness ==
    /\ pc = "done"
    /\ \E g \in 1..Len(sampled) :
          /\ Len(sampled[g]) = 2
          /\ sampled[g][1] # sampled[g][2]
          /\ result[g].slots[1] = result[g].slots[2]
          /\ result[g].slots[1] = L1

InSampler == pc \in {"sampling", "sampled", "done"}
DrawnIds == UNION {Range(sampled[g]) : g \in 1..Len(sampled)}
PoolIds(pl) == {pl[j].row_id : j \in 1..Len(pl)}

\* C17: during the sampler run the working pool only shrinks: a group's step
\* leaves the previous pool without exactly the rows drawn for the group,
\* every other step leaves it as it was, no row comes back, and every row of
\* the cleaned pool is drawn for at most one group and at most once, being in
\* the working pool exactly until it is drawn.
C17_PoolOnlyShrinks ==
    /\ [](InSampler =>
            /\ \A g, h \in 1..Len(sampled) : \A a \in 1..Len(sampled[g]), b \in 1..Len(sampled[h]) :
                  sampled[g][a] = sampled[h][b] => (g = h /\ a = b)
            /\ pool = SelectSeq(with_row_id(df_clean.rows), LAMBDA r : r.row_id \notin DrawnIds))
    /\ [][InSampler =>
            /\ Range(pool') \subseteq Range(pool)
            /\ i' = i + 1 =>
                  /\ Range(sampled'[i']) \subseteq PoolIds(pool)
                  /\ pool' = SelectSeq(pool, LAMBDA r : r.row_id \notin Range(sampled'[i']))
                  /\ Len(pool') = Len(pool) - Len(sampled'[i'])
            /\ i' = i => pool' = pool]_vars

\* Two groups have drawn rows one after the other and a row is left in the
\* working pool.
C17_Witness ==
    /\ pc = "done"
    /\ pool # <<>>
    /\ Len(pool) + Cardinality(DrawnIds) = Len(df_clean.rows)
    /\ \E g, h \in 1..Len(sampled) : g # h /\ sampled[g] # <<>> /\ sampled[h] # <<>>

\* C19: in every state of the sampler run no row of the working pool has a
\* location code in the exclusion set, and the eligible rows of every roster
\* group are exactly the rows of the working pool whose operator differs from
\* the group.
C19_SamplerExclusionRedundant ==
    InSampler =>
        /\ \A r \in Range(pool) : loc_norm(r.loc) \notin excluded_locations
        /\ \A g \in 1..Len(result) :
              eligible_rows(pool, result[g].user, excluded_locations)
                  = SelectSeq(pool, LAMBDA r : r.user # result[g].user)

\* The sampler is at work on a pool from which the cleaner has dropped a row
\* named in the discrepancy sheet, and a group has drawn a row.
C19_Witness ==
    /\ pc = "sampling"
    /\ excluded_locations # {}
    /\ \E r \in Range(df_source.rows) : Trimmed(r.loc) \in excluded_locations
    /\ pool # <<>>
    /\ DrawnIds # {}

\* An operator id that is blacklisted: the blacklisted account, or an id that
\* starts with the blacklisted prefix.
Blacklisted(user) ==
    notna(user) /\ (user = Str(BLACKLISTED_USER) \/ startswith(astype_str(user), BLACKLISTED_PREFIX))

\* C20: the rows of a blacklisted operator and the rows with no operator stay
\* in the cleaned pool and in the working pool until they are drawn, their
\* operator is no roster group, and while in the working pool they are
\* eligible for every roster group.
C20_BlacklistedRowsEligible ==
    InSampler =>
        \A r \in Range(with_row_id(df_clean.rows)) :
            (Blacklisted(r.user) \/ ~notna(r.user)) =>
                /\ \A g \in 1..Len(result) : result[g].user # r.user
                /\ r.row_id \in DrawnIds <=> r \notin Range(pool)
                /\ r \in Range(pool) =>
                      \A g \in 1..Len(result) :
                          r \in Range(eligible_rows(pool, result[g].user, excluded_locations))

\* C18: the roster is exactly the operator ids of the cleaned pool that are
\* not missing and not blacklisted, each once, in ascending order; rows with
\* no operator id add nothing to it.
C18_RosterIsSortedDistinctUsers ==
    "check_table" \in locals =>
        /\ Range(check_table)
              = {r.user : r \in {x \in Range(df_clean.rows) : notna(x.user) /\ ~Blacklisted(x.user)}}
        /\ \A a, b \in 1..Len(check_table) :
              a < b => StrLess(check_table[a].s, check_table[b].s)

\* The rows of the working pool that group `user` may draw: rows of another
\* operator whose location code is not in the exclusion set.
EligibleCount(user) ==
    Cardinality({j \in 1..Len(pool) :
        pool[j].user # user /\ loc_norm(pool[j].loc) \notin excluded_locations})

Min(a, b) == IF a <= b THEN a ELSE b

\* C16: the step that processes group g fills the first n = min(k, E) slots of
\* g and leaves the other k - n empty, E being the number of rows of the
\* working pool, as it stands before the step, that g may draw; the slots of a
\* group processed earlier are not touched again; with E = 1 and k = 5 the
\* group gets one filled slot, four empty ones and the shortage entry (g, 1).
C16_FilledSlotsIsMinKEligible ==
    [][(pc = "sampling" /\ i < Len(result)) =>
          LET n == Min(k, EligibleCount(CurrentUser)) IN
              /\ pc' = "sampling" /\ i' = i + 1
              /\ result'[i'].user = CurrentUser
              /\ Len(result'[i'].slots) = k
              /\ Filled(result'[i'].slots) = 1..n
              /\ Len(sampled'[i']) = n
              /\ \A g \in 1..Len(result) : g # i' => result'[g] = result[g]
              /\ (EligibleCount(CurrentUser) = 1 /\ k = 5) =>
                    /\ Filled(result'[i'].slots) = {1}
                    /\ shortage' = Append(shortage, <<CurrentUser, 1>>)]_vars

\* With k = 5 a group whose only eligible row was one row of another operator
\* has one filled slot, four empty ones and the shortage entry with count 1,
\* while another group has drawn two rows.
C16_Witness ==
    /\ pc = "done" /\ k = 5
    /\ \E g \in 1..Len(result) :
          /\ Filled(result[g].slots) = {1}
          /\ \A j \in 2..5 : result[g].slots[j] = None
          /\ \E e \in 1..Len(shortage_df) : shortage_df[e] = <<result[g].user, 1>>
    /\ \E g \in 1..Len(result) : Filled(result[g].slots) = {1, 2}

HasToken(c) == contains(c, TOKEN_CHUWEI) \/ contains(c, TOKEN_KUWEI)

\* The column the priority rule names for a header, or <<>> when no column
\* qualifies.
ColumnByPriority(cols) ==
    IF \E j \in 1..Len(cols) : cols[j] = COL_CHUWEI_LIE THEN COL_CHUWEI_LIE
    ELSE IF \E m \in 1..Len(CANDIDATES) : CANDIDATES[m] \in Range(cols)
    THEN CANDIDATES[CHOOSE m \in 1..Len(CANDIDATES) :
                       /\ CANDIDATES[m] \in Range(cols)
                       /\ \A m2 \in 1..(m - 1) : CANDIDATES[m2] \notin Range(cols)]
    ELSE IF \E j \in 1..Len(cols) : HasToken(cols[j])
    THEN cols[CHOOSE j \in 1..Len(cols) :
                 HasToken(cols[j]) /\ \A j2 \in 1..(j - 1) : ~HasToken(cols[j2])]
    ELSE <<>>

\* C15: once an uploaded discrepancy sheet has been looked at, the location
\* column is the one named "chu wei lie" if the sheet has it, else the first
\* name of the candidate list that the sheet has, else the first column of
\* the sheet whose name contains "chu wei" or "ku wei", and the exclusion set is
\* read from that column; when no column qualifies the run has failed with the
\* configuration error and has no cleaned pool, roster, sampling state or
\* output; the run fails that way in no other case.
C15_DiffColumnPriority ==
    /\ (diff_upload.uploaded /\ pc # "clicked") =>
          LET c == ColumnByPriority(diff_upload.columns) IN
              IF c = <<>>
              THEN /\ pc = "failed" /\ error.kind = "diff_column"
                   /\ locals \cap (HandlerLocals \cup {"diff_loc_col"}) = {}
                   /\ df_clean.rows = <<>> /\ check_table = <<>> /\ pool = <<>>
                   /\ result = <<>> /\ final_table = <<>> /\ excluded_locations = {}
              ELSE /\ "diff_loc_col" \in locals
                   /\ diff_loc_col = c
                   /\ excluded_locations = build_excluded_locations(diff_upload, c)
                   /\ ~(pc = "failed" /\ error.kind = "diff_column")
    /\ ~diff_upload.uploaded => ~(pc = "failed" /\ error.kind = "diff_column")

\* A sheet whose columns are "ku wei" then "chu wei" has been resolved to
\* "chu wei", the earlier name of the candidate list, and the code of that
\* column has been kept out of the cleaned pool.
C15_Witness ==
    /\ diff_upload.uploaded
    /\ diff_upload.columns = << <<"ku", "wei">>, <<"chu", "wei">> >>
    /\ diff_loc_col = <<"chu", "wei">>
    /\ excluded_locations = {<<"L", "2">>}
    /\ pc = "done"
    /\ Len(df_clean.rows) < Len(df_source.rows)

\* The uploads have the columns the run needs: the source sheet every
\* required column, the discrepancy sheet, if any, a location column.
ValidSchema ==
    /\ df_source.columns = AllColumns
    /\ diff_upload.uploaded => ColumnByPriority(diff_upload.columns) # <<>>

\* C14: a run on uploads of valid schema reaches its end and does not fail;
\* the roster is ascending; each step of the sampler's loop processes the next
\* roster group, once; at the end every roster group has been processed and
\* the output table has one row per roster group, in roster order, also for a
\* group with no filled slot, and no other row.
C14_OneRowPerRosterGroup ==
    /\ [](ValidSchema => <>(pc = "done"))
    /\ [](ValidSchema => pc # "failed")
    /\ [](InSampler =>
            /\ \A a, b \in 1..Len(check_table) :
                  a < b => StrLess(check_table[a].s, check_table[b].s)
            /\ Len(result) = Len(check_table)
            /\ \A g \in 1..Len(result) : result[g].user = check_table[g]
            /\ i <= Len(check_table) /\ Len(sampled) = i
            /\ pc # "sampling" => i = Len(check_table))
    /\ [](pc = "done" =>
            /\ Len(final_table) = Len(check_table)
            /\ \A g \in 1..Len(check_table) : final_table[g].user = check_table[g])
    /\ [][InSampler =>
            /\ check_table' = check_table
            /\ i' # i => (pc = "sampling" /\ i' = i + 1 /\ Len(sampled') = i')]_vars

\* A run on a sheet of three operators has ended with three output rows, the
\* last for a group with no filled slot, after groups with filled slots.
C14_Witness ==
    /\ pc = "done"
    /\ ValidSchema
    /\ Len(final_table) = 3
    /\ Filled(final_table[3].slots) = {}
    /\ Filled(final_table[1].slots) # {}

\* The number of codes a summary field lists: none in the empty text, else
\* one more than its commas.
ListedCodes(content) ==
    IF content = <<>> THEN 0
    ELSE 1 + Cardinality({j \in 1..Len(content) : content[j] = ","})

\* C21: at the end of a run the summary field of every group lists as many
\* codes as rows were drawn for the group, which is the count in the group's
\* shortage entry when it has one, also when a drawn row's location code is
\* empty after trimming.
C21_SummaryListsEveryDrawnRow ==
    pc = "done" =>
        \A g \in 1..Len(final_table) :
            /\ ListedCodes(final_table[g].content) = Len(sampled[g])
            /\ \A e \in ShortageRowsOf(final_table[g].user) :
                  shortage_df[e][2] = ListedCodes(final_table[g].content)

\* The rows of the source sheet the cleaner is to retain, in sheet order.
Retained ==
    SelectSeq(SelectedByFixedRules, LAMBDA r : Trimmed(r.loc) \notin excluded_locations)

\* C22: the cleaned pool holds exactly the source rows that have the sentinel
\* operation type, a zone other than "R", a numeric quantity not above the
\* ceiling, however small, and a location code outside the exclusion set;
\* they are in their order in the source sheet and labelled 0..n-1, which
\* gives every row of the sampler's pool its own row id; no step changes the
\* source sheet.
C22_CleanerRetainsInOrder ==
    /\ []("df_clean" \in locals =>
            /\ Len(df_clean.rows) = Len(Retained)
            /\ Len(kept) = Len(Retained)
            /\ \A j \in 1..Len(Retained) :
                  /\ kept[j] = Retained[j].index
                  /\ df_clean.rows[j].index = j - 1
                  /\ df_clean.rows[j].op_type = Retained[j].op_type
                  /\ df_clean.rows[j].zone = Retained[j].zone
                  /\ df_clean.rows[j].user = Retained[j].user
                  /\ df_clean.rows[j].qty = to_numeric(Retained[j].qty)
                  /\ df_clean.rows[j].loc = Str(Trimmed(Retained[j].loc))
            /\ \A a, b \in 1..Len(kept) : a < b => kept[a] < kept[b]
            /\ \A a, b \in 1..Len(pool) :
                  /\ pool[a].row_id = pool[a].index
                  /\ a # b => pool[a].row_id # pool[b].row_id)
    /\ [][df_source' = df_source]_vars

\* The cleaner has dropped the first of three rows, a quantity above the
\* ceiling, and kept the rows with quantity 0 and -1 in their order under the
\* new labels 0 and 1; the run has gone on to its end.
C22_Witness ==
    /\ pc = "done"
    /\ Len(df_source.rows) = 3
    /\ kept = <<1, 2>>
    /\ df_clean.rows[1].qty = Num(0) /\ df_clean.rows[1].index = 0
    /\ df_clean.rows[2].qty = Num(0 - 1) /\ df_clean.rows[2].index = 1
    /\ df_source.rows[1].qty = Num(51)

====
